---- MODULE Spec2Model ----
(***************************************************************************)
(* Edita: the find / replace engine of the editor (class Edita).           *)
(*                                                                         *)
(* Text is a sequence of one-character strings; offset i of the JavaScript *)
(* string is element i+1 of the sequence.                                  *)
(***************************************************************************)
EXTENDS Integers, Sequences, FiniteSets, TLC

VARIABLES
    tabs,            \* this.tabs: sequence of [id, name, content, modified]
    activeTabId,     \* this.activeTabId
    editorValue,     \* this.editor.value
    selectionStart,  \* this.editor.selectionStart
    selectionEnd,    \* this.editor.selectionEnd
    findInput,       \* #findInput.value
    replaceInput,    \* #replaceInput.value
    caseSensitive,   \* #caseSensitive.checked
    wholeWord,       \* #wholeWord.checked
    lastOp,          \* history: the handler or function that ran last
    pre,             \* history: editor and tabs as that handler found them
    ret,             \* history: what it computed, and the status text it
                     \* wrote to #findResults
    isLoadingFiles,  \* this.isLoadingFiles
    batch,           \* the openFile call whose FileReader callbacks are due
    timers,          \* setTimeout callbacks that are due, oldest first
    panel            \* #searchResultsPanel: the result lines on display

vars == <<tabs, activeTabId, editorValue, selectionStart, selectionEnd,
          findInput, replaceInput, caseSensitive, wholeWord,
          lastOp, pre, ret, isLoadingFiles, batch, timers, panel>>

----------------------------------------------------------------------------
(* Bounds *)

MaxLen == 4       \* longest text handed to the search functions
MaxPat == 2       \* longest search term

\* The characters texts are made of: a case pair of word characters and a
\* non-word character.
Chars == {"a", "A", " "}

Strings(n) == UNION {[1..k -> Chars] : k \in 0..n}

NOT_FOUND == -1
NULL == -1

----------------------------------------------------------------------------
(* JavaScript string primitives *)

Min(a, b) == IF a < b THEN a ELSE b
Max(a, b) == IF a > b THEN a ELSE b

\* String.prototype.toLowerCase, per character and on a string
LowerChar(c) == IF c = "A" THEN "a" ELSE c
ToLowerCase(s) == [i \in 1..Len(s) |-> LowerChar(s[i])]

\* /\w/.test(char)
isWordChar(c) == c \in {"a", "A"}

\* s[i] for an offset inside s
CharAt(s, i) == s[i + 1]

\* s.substring(from, to): both ends clamped into 0..length, swapped if needed
Substring(s, from, to) ==
    LET f == Max(0, Min(from, Len(s)))
        t == Max(0, Min(to, Len(s)))
    IN  SubSeq(s, Min(f, t) + 1, Max(f, t))

\* does needle sit in s at offset i
MatchesAt(s, needle, i) ==
    /\ i >= 0
    /\ i + Len(needle) <= Len(s)
    /\ \A k \in 1..Len(needle) : s[i + k] = needle[k]

\* s.indexOf(needle, position)
IndexOf(s, needle, position) ==
    LET from == Max(0, Min(position, Len(s)))
        hits == {i \in from..Len(s) : MatchesAt(s, needle, i)}
    IN  IF hits = {} THEN -1
        ELSE CHOOSE i \in hits : \A j \in hits : i <= j

\* s.lastIndexOf(needle)
LastIndexOf(s, needle) ==
    LET hits == {i \in 0..Len(s) : MatchesAt(s, needle, i)}
    IN  IF hits = {} THEN -1
        ELSE CHOOSE i \in hits : \A j \in hits : i >= j

----------------------------------------------------------------------------
(* The search functions *)

\* findInText resuming after the whole rejected match instead of one past
\* its start
RECURSIVE findInText_ResumeAtMatchEnd(_, _, _, _, _)
findInText_ResumeAtMatchEnd(text, searchTerm, startPos, cs, ww) ==
    LET searchText == IF cs THEN text ELSE ToLowerCase(text)
        searchFor  == IF cs THEN searchTerm ELSE ToLowerCase(searchTerm)
        index      == IndexOf(searchText, searchFor, startPos)
    IN  IF ww /\ index # -1
        THEN LET before == IF index > 0 THEN CharAt(searchText, index - 1) ELSE " "
                 after  == IF index + Len(searchFor) < Len(searchText)
                           THEN CharAt(searchText, index + Len(searchFor)) ELSE " "
             IN  IF isWordChar(before) \/ isWordChar(after)
                 THEN findInText_ResumeAtMatchEnd(text, searchTerm,
                                                  index + Len(searchFor), cs, ww)
                 ELSE index
        ELSE index

RECURSIVE findInText(_, _, _, _, _)
findInText(text, searchTerm, startPos, cs, ww) ==
    LET searchText == IF cs THEN text ELSE ToLowerCase(text)
        searchFor  == IF cs THEN searchTerm ELSE ToLowerCase(searchTerm)
        index      == IndexOf(searchText, searchFor, startPos)
    IN  IF ww /\ index # -1
        THEN LET before == IF index > 0 THEN CharAt(searchText, index - 1) ELSE " "
                 after  == IF index + Len(searchFor) < Len(searchText)
                           THEN CharAt(searchText, index + Len(searchFor)) ELSE " "
             IN  IF isWordChar(before) \/ isWordChar(after)
                 THEN findInText(text, searchTerm, index + 1, cs, ww)
                 ELSE index
        ELSE index

\* findInTextReverse searching a window one character too long
RECURSIVE findInTextReverse_WindowPlusOne(_, _, _, _, _)
findInTextReverse_WindowPlusOne(text, searchTerm, startPos, cs, ww) ==
    LET searchText == IF cs THEN Substring(text, 0, startPos + 1)
                      ELSE ToLowerCase(Substring(text, 0, startPos + 1))
        searchFor  == IF cs THEN searchTerm ELSE ToLowerCase(searchTerm)
        index      == LastIndexOf(searchText, searchFor)
    IN  IF ww /\ index # -1
        THEN LET before == IF index > 0 THEN CharAt(searchText, index - 1) ELSE " "
                 after  == IF index + Len(searchFor) < Len(text)
                           THEN CharAt(text, index + Len(searchFor)) ELSE " "
             IN  IF isWordChar(before) \/ isWordChar(after)
                 THEN findInTextReverse_WindowPlusOne(text, searchTerm, index, cs, ww)
                 ELSE index
        ELSE index

RECURSIVE findInTextReverse(_, _, _, _, _)
findInTextReverse(text, searchTerm, startPos, cs, ww) ==
    LET searchText == IF cs THEN Substring(text, 0, startPos)
                      ELSE ToLowerCase(Substring(text, 0, startPos))
        searchFor  == IF cs THEN searchTerm ELSE ToLowerCase(searchTerm)
        index      == LastIndexOf(searchText, searchFor)
    IN  IF ww /\ index # -1
        THEN LET before == IF index > 0 THEN CharAt(searchText, index - 1) ELSE " "
                 after  == IF index + Len(searchFor) < Len(text)
                           THEN CharAt(text, index + Len(searchFor)) ELSE " "
             IN  IF isWordChar(before) \/ isWordChar(after)
                 THEN findInTextReverse(text, searchTerm, index, cs, ww)
                 ELSE index
        ELSE index

\* the forward search retrying at the rejected match itself
RECURSIVE findInTextCalls_RetryAtMatch(_, _, _, _, _, _)
findInTextCalls_RetryAtMatch(text, searchTerm, startPos, cs, ww, budget) ==
    LET searchText == IF cs THEN text ELSE ToLowerCase(text)
        searchFor  == IF cs THEN searchTerm ELSE ToLowerCase(searchTerm)
        index      == IndexOf(searchText, searchFor, startPos)
    IN  IF budget = 0 THEN <<>>
        ELSE IF ww /\ index # -1
        THEN LET before == IF index > 0 THEN CharAt(searchText, index - 1) ELSE " "
                 after  == IF index + Len(searchFor) < Len(searchText)
                           THEN CharAt(searchText, index + Len(searchFor)) ELSE " "
             IN  IF isWordChar(before) \/ isWordChar(after)
                 THEN <<startPos>> \o findInTextCalls_RetryAtMatch(
                                          text, searchTerm, index, cs, ww, budget - 1)
                 ELSE <<startPos>>
        ELSE <<startPos>>

\* the startPos arguments of the calls findInText makes, itself first, as
\* far as budget calls
RECURSIVE findInTextCalls(_, _, _, _, _, _)
findInTextCalls(text, searchTerm, startPos, cs, ww, budget) ==
    LET searchText == IF cs THEN text ELSE ToLowerCase(text)
        searchFor  == IF cs THEN searchTerm ELSE ToLowerCase(searchTerm)
        index      == IndexOf(searchText, searchFor, startPos)
    IN  IF budget = 0 THEN <<>>
        ELSE IF ww /\ index # -1
        THEN LET before == IF index > 0 THEN CharAt(searchText, index - 1) ELSE " "
                 after  == IF index + Len(searchFor) < Len(searchText)
                           THEN CharAt(searchText, index + Len(searchFor)) ELSE " "
             IN  IF isWordChar(before) \/ isWordChar(after)
                 THEN <<startPos>> \o findInTextCalls(text, searchTerm, index + 1,
                                                      cs, ww, budget - 1)
                 ELSE <<startPos>>
        ELSE <<startPos>>

\* the startPos arguments of the calls findInTextReverse makes, itself
\* first, as far as budget calls
RECURSIVE findInTextReverseCalls(_, _, _, _, _, _)
findInTextReverseCalls(text, searchTerm, startPos, cs, ww, budget) ==
    LET searchText == IF cs THEN Substring(text, 0, startPos)
                      ELSE ToLowerCase(Substring(text, 0, startPos))
        searchFor  == IF cs THEN searchTerm ELSE ToLowerCase(searchTerm)
        index      == LastIndexOf(searchText, searchFor)
    IN  IF budget = 0 THEN <<>>
        ELSE IF ww /\ index # -1
        THEN LET before == IF index > 0 THEN CharAt(searchText, index - 1) ELSE " "
                 after  == IF index + Len(searchFor) < Len(text)
                           THEN CharAt(text, index + Len(searchFor)) ELSE " "
             IN  IF isWordChar(before) \/ isWordChar(after)
                 THEN <<startPos>> \o findInTextReverseCalls(text, searchTerm, index,
                                                             cs, ww, budget - 1)
                 ELSE <<startPos>>
        ELSE <<startPos>>

\* the regular expression \b at offset i of text
WordBoundaryAt(text, i) ==
    LET left  == i > 0 /\ isWordChar(CharAt(text, i - 1))
        right == i < Len(text) /\ isWordChar(CharAt(text, i))
    IN  left # right

\* does /\b<source>\b/ (flag i when ignoreCase) match text at offset i
RegExpWordMatchAt(text, source, ignoreCase, i) ==
    /\ WordBoundaryAt(text, i)
    /\ IF ignoreCase
       THEN MatchesAt(ToLowerCase(text), ToLowerCase(source), i)
       ELSE MatchesAt(text, source, i)
    /\ WordBoundaryAt(text, i + Len(source))

\* (text.match(/\b<source>\b/g) || []).length : the global scan restarts at
\* the end of each match and one character on after a failure
RECURSIVE RegExpWordMatchCount(_, _, _, _)
RegExpWordMatchCount(text, source, ignoreCase, from) ==
    IF from > Len(text) THEN 0
    ELSE IF RegExpWordMatchAt(text, source, ignoreCase, from)
         THEN 1 + RegExpWordMatchCount(text, source, ignoreCase,
                                       IF Len(source) = 0 THEN from + 1
                                       ELSE from + Len(source))
         ELSE RegExpWordMatchCount(text, source, ignoreCase, from + 1)

\* the counting loop stepping one character past each match start, so that
\* overlapping occurrences are counted
RECURSIVE IndexOfCount_AdvanceByOne(_, _, _)
IndexOfCount_AdvanceByOne(searchText, searchFor, pos) ==
    LET p == IndexOf(searchText, searchFor, pos)
    IN  IF p = -1 THEN 0
        ELSE 1 + IndexOfCount_AdvanceByOne(searchText, searchFor, p + 1)

\* the while loop of countInText: pos = indexOf(searchFor, pos); pos += length
RECURSIVE IndexOfCount(_, _, _)
IndexOfCount(searchText, searchFor, pos) ==
    LET p == IndexOf(searchText, searchFor, pos)
    IN  IF p = -1 THEN 0
        ELSE 1 + IndexOfCount(searchText, searchFor, p + Len(searchFor))

countInText(text, searchTerm, cs, ww) ==
    LET searchText == IF cs THEN text ELSE ToLowerCase(text)
        searchFor  == IF cs THEN searchTerm ELSE ToLowerCase(searchTerm)
    IN  IF ww
        THEN RegExpWordMatchCount(text, searchFor, ~cs, 0)
        ELSE IndexOfCount(searchText, searchFor, 0)

----------------------------------------------------------------------------
(* SpecSearch: the search functions applied to every bounded input *)

NoPre == [value |-> <<>>, selectionStart |-> 0, selectionEnd |-> 0, tabs |-> <<>>,
          activeTabId |-> NULL]
NoStatus == [kind |-> "", n |-> 0]
NoRet == [startPos |-> 0, result |-> 0, status |-> NoStatus]

\* no openFile call is waiting for its readers
NoBatch == [files |-> <<>>, due |-> {}, loadedCount |-> 0, skippedCount |-> 0]

\* the results panel closed
NoPanel == [lines |-> <<>>, searchTerm |-> <<>>, caseSensitive |-> FALSE,
            wholeWord |-> FALSE]

deferred == <<isLoadingFiles, batch, timers>>

\* the constructor's isLoadingFiles, no reader or timer started, panel closed
Idle ==
    /\ isLoadingFiles = FALSE
    /\ batch = NoBatch
    /\ timers = <<>>
    /\ panel = NoPanel

InitSearch ==
    /\ tabs = <<>>
    /\ activeTabId = NULL
    /\ editorValue \in Strings(MaxLen)
    /\ selectionStart = 0
    /\ selectionEnd = 0
    /\ findInput \in Strings(MaxPat) \ {<<>>}
    /\ replaceInput = <<>>
    /\ caseSensitive \in BOOLEAN
    /\ wholeWord \in BOOLEAN
    /\ lastOp = "init"
    /\ pre = NoPre
    /\ ret = NoRet
    /\ Idle

inputs == <<tabs, activeTabId, editorValue, selectionStart, selectionEnd,
            findInput, replaceInput, caseSensitive, wholeWord, pre>>

CallFindInText ==
    \E startPos \in -1..(MaxLen + 1) :
        /\ lastOp' = "findInText"
        /\ ret' = [startPos |-> startPos,
                   result |-> findInText(editorValue, findInput, startPos,
                                         caseSensitive, wholeWord),
                   status |-> NoStatus]
        /\ UNCHANGED inputs
        /\ UNCHANGED <<deferred, panel>>

CallFindInTextReverse ==
    \E startPos \in -1..(MaxLen + 1) :
        /\ lastOp' = "findInTextReverse"
        /\ ret' = [startPos |-> startPos,
                   result |-> findInTextReverse(editorValue, findInput, startPos,
                                                caseSensitive, wholeWord),
                   status |-> NoStatus]
        /\ UNCHANGED inputs
        /\ UNCHANGED <<deferred, panel>>

CallCountInText ==
    /\ lastOp' = "countInText"
    /\ ret' = [startPos |-> 0,
               result |-> countInText(editorValue, findInput,
                                      caseSensitive, wholeWord),
               status |-> NoStatus]
    /\ UNCHANGED inputs
    /\ UNCHANGED <<deferred, panel>>

NextSearch ==
    \/ CallFindInText
    \/ CallFindInTextReverse
    \/ CallCountInText

SpecSearch == InitSearch /\ [][NextSearch]_vars

----------------------------------------------------------------------------
(* What the search contract calls an occurrence *)

\* the pattern occurs at offset i under the case rule
Occurs(text, pattern, i, cs) ==
    IF cs THEN MatchesAt(text, pattern, i)
    ELSE MatchesAt(ToLowerCase(text), ToLowerCase(pattern), i)

\* both neighbours of the occurrence at i are non-word or out of bounds
WordBounded(text, pattern, i) ==
    /\ (i > 0 => ~isWordChar(CharAt(text, i - 1)))
    /\ (i + Len(pattern) < Len(text) => ~isWordChar(CharAt(text, i + Len(pattern))))

Qualifies(text, pattern, i, cs, ww) ==
    /\ Occurs(text, pattern, i, cs)
    /\ (ww => WordBounded(text, pattern, i))

QualifyingSet(text, pattern, cs, ww) ==
    {i \in 0..Len(text) : Qualifies(text, pattern, i, cs, ww)}

Clamp(text, offset) == Max(0, Min(offset, Len(text)))

Least(S) == IF S = {} THEN NOT_FOUND ELSE CHOOSE i \in S : \A j \in S : i <= j
Greatest(S) == IF S = {} THEN NOT_FOUND ELSE CHOOSE i \in S : \A j \in S : i >= j

\* the number of matches findInText accepts when restarted at each match end
RECURSIVE CountByFind(_, _, _, _, _)
CountByFind(text, pattern, from, cs, ww) ==
    LET i == findInText(text, pattern, from, cs, ww)
    IN  IF i = NOT_FOUND THEN 0
        ELSE 1 + CountByFind(text, pattern, i + Len(pattern), cs, ww)

----------------------------------------------------------------------------
(* Claims on the search functions, checked under SpecSearch *)

\* C4: findInText returns the smallest qualifying offset at or after the
\* clamped start offset, and NOT_FOUND exactly when there is none.
C4_FindForwardFirstQualifying ==
    lastOp = "findInText" =>
        ret.result = Least({i \in QualifyingSet(editorValue, findInput,
                                                caseSensitive, wholeWord) :
                               i >= Clamp(editorValue, ret.startPos)})

\* a whole-word, case-insensitive search that stepped over a rejected
\* candidate and matched text of another case
C4_Witness ==
    /\ lastOp = "findInText"
    /\ wholeWord /\ ~caseSensitive
    /\ ret.result # NOT_FOUND
    /\ ~MatchesAt(editorValue, findInput, ret.result)
    /\ \E i \in Clamp(editorValue, ret.startPos)..(ret.result - 1) :
           Occurs(editorValue, findInput, i, caseSensitive)

\* C5 as claimed: without whole-word, findInTextReverse returns the
\* occurrence with the largest start offset strictly below beforeOffset.
C5_Original ==
    (lastOp = "findInTextReverse" /\ ~wholeWord) =>
        ret.result = Greatest({i \in QualifyingSet(editorValue, findInput,
                                                   caseSensitive, FALSE) :
                                  i < ret.startPos})

\* C5 amended: without whole-word, findInTextReverse returns the occurrence
\* with the largest start offset among those lying wholly inside
\* content[0, beforeOffset), and NOT_FOUND when there is none.
C5_FindBackwardInsideWindow ==
    (lastOp = "findInTextReverse" /\ ~wholeWord) =>
        ret.result = Greatest({i \in QualifyingSet(editorValue, findInput,
                                                   caseSensitive, FALSE) :
                                  i + Len(findInput) <= ret.startPos})

\* an occurrence starts before beforeOffset but runs past it, and an earlier
\* one is returned
C5_Witness ==
    /\ lastOp = "findInTextReverse" /\ ~wholeWord
    /\ ret.result # NOT_FOUND
    /\ \E j \in (ret.result + 1)..(ret.startPos - 1) :
           Occurs(editorValue, findInput, j, caseSensitive)

\* C6: with whole-word, findInTextReverse returns the qualifying occurrence
\* with the largest start offset inside the window content[0, beforeOffset),
\* neighbours read from the full content, and NOT_FOUND only when the window
\* holds no qualifying occurrence.
C6_FindBackwardWholeWord ==
    (lastOp = "findInTextReverse" /\ wholeWord) =>
        ret.result = Greatest({i \in QualifyingSet(editorValue, findInput,
                                                   caseSensitive, TRUE) :
                                  i + Len(findInput) <= ret.startPos})

\* C10: in whole-word mode countInText equals the number of matches that
\* findInText accepts when iterated from each match end.
C10_CountEqualsIteratedFind ==
    (lastOp = "countInText" /\ wholeWord) =>
        ret.result = CountByFind(editorValue, findInput, 0, caseSensitive, TRUE)

\* occurrences under the case rule taken greedily from the left, each one
\* starting at or after the end of the one before
RECURSIVE GreedyCount(_, _, _, _)
GreedyCount(text, pattern, i, cs) ==
    IF i + Len(pattern) > Len(text) THEN 0
    ELSE IF Occurs(text, pattern, i, cs)
         THEN 1 + GreedyCount(text, pattern, i + Len(pattern), cs)
         ELSE GreedyCount(text, pattern, i + 1, cs)

\* C11: without whole-word, countInText counts the occurrences under the
\* case rule left to right without overlap, stepping over each counted
\* occurrence by the length of the pattern.
C11_CountNonOverlapping ==
    (lastOp = "countInText" /\ ~wholeWord) =>
        ret.result = GreedyCount(editorValue, findInput, 0, caseSensitive)

\* overlapping occurrences, some of another case than the pattern, of which
\* only the non-overlapping ones are counted
C11_Witness ==
    /\ lastOp = "countInText" /\ ~wholeWord /\ ~caseSensitive
    /\ ret.result >= 2
    /\ Cardinality(QualifyingSet(editorValue, findInput, FALSE, FALSE)) > ret.result
    /\ \E i \in QualifyingSet(editorValue, findInput, FALSE, FALSE) :
           ~MatchesAt(editorValue, findInput, i)

\* calls followed before a search is taken not to return
CallBudget == MaxLen + 3

\* C20: findInText and findInTextReverse return for every non-empty
\* pattern: each whole-word rejection is followed by one retry whose start
\* offset is strictly larger (forward) or strictly smaller (backward) than
\* that of the call before, and there are at most content.length rejections.
C20_RejectionsAdvanceAndAreBounded ==
    /\ lastOp = "findInText" =>
           LET calls == findInTextCalls(editorValue, findInput, ret.startPos,
                                        caseSensitive, wholeWord, CallBudget)
           IN  /\ Len(calls) - 1 <= Len(editorValue)
               /\ \A k \in 2..Len(calls) : calls[k] > calls[k - 1]
               /\ (~wholeWord) => Len(calls) = 1
               /\ ret.result = findInText(editorValue, findInput, calls[Len(calls)],
                                          caseSensitive, wholeWord)
    /\ lastOp = "findInTextReverse" =>
           LET calls == findInTextReverseCalls(editorValue, findInput, ret.startPos,
                                               caseSensitive, wholeWord, CallBudget)
           IN  /\ Len(calls) - 1 <= Len(editorValue)
               /\ \A k \in 2..Len(calls) : calls[k] < calls[k - 1]
               /\ (~wholeWord) => Len(calls) = 1
               /\ ret.result = findInTextReverse(editorValue, findInput,
                                                 calls[Len(calls)],
                                                 caseSensitive, wholeWord)

\* a forward whole-word search over a text of three characters or more in
\* which every character starts a rejected candidate
C20_Witness ==
    /\ lastOp = "findInText" /\ wholeWord
    /\ Len(editorValue) >= 3
    /\ Len(findInTextCalls(editorValue, findInput, ret.startPos,
                           caseSensitive, wholeWord, CallBudget)) - 1
           = Len(editorValue)

----------------------------------------------------------------------------
(* The editor: one text area, the open tabs and the find / replace dialog *)

MaxText == 3      \* longest text the editor holds
MaxTerm == 1      \* longest search term typed into the dialog
MaxRepl == 1      \* longest replacement term

\* the session loadOpenTabs finds in localStorage: one saved file
StoredSessions ==
    {<<[id |-> 1, name |-> "notes.txt", content |-> c, modified |-> m]>> :
        c \in Strings(MaxText), m \in BOOLEAN}

\* this.tabs.find(t => t.id === id): index of the first such tab, 0 if none
TabIndex(ts, id) ==
    LET hits == {i \in 1..Len(ts) : ts[i].id = id}
    IN  IF hits = {} THEN 0 ELSE CHOOSE i \in hits : \A j \in hits : i <= j

Init ==
    \E stored \in StoredSessions :
        /\ tabs = stored
        /\ activeTabId = stored[1].id
        /\ editorValue = stored[1].content
        /\ selectionStart = Len(editorValue)
        /\ selectionEnd = Len(editorValue)
        /\ findInput = <<>>
        /\ replaceInput = <<>>
        /\ caseSensitive = FALSE
        /\ wholeWord = FALSE
            /\ lastOp = "init"
        /\ pre = NoPre
        /\ ret = NoRet
        /\ Idle

\* handleInput storing the editor text in every open tab
handleInput_EveryTab(ts, active, value) ==
    [i \in 1..Len(ts) |-> [ts[i] EXCEPT !.content = value, !.modified = TRUE]]

\* the tabs after handleInput has stored the editor text in the active tab
handleInput(ts, active, value) ==
    LET k == TabIndex(ts, active)
    IN  IF k = 0 THEN ts
        ELSE [ts EXCEPT ![k] = [@ EXCEPT !.content = value, !.modified = TRUE]]

\* document.execCommand('insertText', false, text) on the selection from..to
InsertText(value, from, to, text) ==
    [value |-> Substring(value, 0, from) \o text \o Substring(value, to, Len(value)),
     caret |-> from + Len(text)]

\* textBeforeSelection.split('\n').length
LineNumber(value, offset) ==
    1 + Cardinality({i \in 1..Min(offset, Len(value)) : value[i] = "\n"})

dialog == <<findInput, replaceInput, caseSensitive, wholeWord>>

Snapshot == [value |-> editorValue, selectionStart |-> selectionStart,
             selectionEnd |-> selectionEnd, tabs |-> tabs,
             activeTabId |-> activeTabId]

UserActed ==
    /\ lastOp' = "user"
    /\ pre' = NoPre
    /\ ret' = NoRet

\* the user types one character over the selection; the input event runs
\* handleInput
TypeChar ==
    \E c \in Chars :
        LET ins == InsertText(editorValue, selectionStart, selectionEnd, <<c>>)
        IN  /\ Len(ins.value) <= MaxText
            /\ editorValue' = ins.value
            /\ selectionStart' = ins.caret
            /\ selectionEnd' = ins.caret
            /\ tabs' = handleInput(tabs, activeTabId, ins.value)
            /\ UserActed
            /\ UNCHANGED <<deferred, panel>>
            /\ UNCHANGED <<activeTabId, dialog>>

\* the user places the caret or drags a selection
SetSelection ==
    \E s \in 0..Len(editorValue) : \E e \in s..Len(editorValue) :
        /\ <<s, e>> # <<selectionStart, selectionEnd>>
        /\ selectionStart' = s
        /\ selectionEnd' = e
        /\ UserActed
        /\ UNCHANGED <<deferred, panel>>
        /\ UNCHANGED <<tabs, activeTabId, editorValue, dialog>>

SetFindInput ==
    \E p \in Strings(MaxTerm) :
        /\ p # findInput
        /\ findInput' = p
        /\ UserActed
        /\ UNCHANGED <<deferred, panel>>
        /\ UNCHANGED <<tabs, activeTabId, editorValue, selectionStart, selectionEnd,
                       replaceInput, caseSensitive, wholeWord>>

SetReplaceInput ==
    \E r \in Strings(MaxRepl) :
        /\ r # replaceInput
        /\ replaceInput' = r
        /\ UserActed
        /\ UNCHANGED <<deferred, panel>>
        /\ UNCHANGED <<tabs, activeTabId, editorValue, selectionStart, selectionEnd,
                       findInput, caseSensitive, wholeWord>>

ToggleCaseSensitive ==
    /\ caseSensitive' = ~caseSensitive
    /\ UserActed
    /\ UNCHANGED <<deferred, panel>>
    /\ UNCHANGED <<tabs, activeTabId, editorValue, selectionStart, selectionEnd,
                   findInput, replaceInput, wholeWord>>

ToggleWholeWord ==
    /\ wholeWord' = ~wholeWord
    /\ UserActed
    /\ UNCHANGED <<deferred, panel>>
    /\ UNCHANGED <<tabs, activeTabId, editorValue, selectionStart, selectionEnd,
                   findInput, replaceInput, caseSensitive>>

\* findNext searching from the end of the selection instead of one past its
\* start
findNext_FromSelectionEnd(value, start, end, searchTerm, cs, ww) ==
    IF searchTerm = <<>>
    THEN [selectionStart |-> start, selectionEnd |-> end, status |-> NoStatus,
          index |-> NOT_FOUND]
    ELSE LET currentPos == end
             index      == findInText(value, searchTerm, currentPos, cs, ww)
             firstIndex == findInText(value, searchTerm, 0, cs, ww)
         IN  IF index # -1
             THEN [selectionStart |-> index,
                   selectionEnd   |-> index + Len(searchTerm),
                   status         |-> [kind |-> "Found at line",
                                       n |-> LineNumber(value, index)],
                   index          |-> index]
             ELSE IF firstIndex # -1
             THEN [selectionStart |-> firstIndex,
                   selectionEnd   |-> firstIndex + Len(searchTerm),
                   status         |-> [kind |-> "Wrapped to line",
                                       n |-> LineNumber(value, firstIndex)],
                   index          |-> firstIndex]
             ELSE [selectionStart |-> start, selectionEnd |-> end,
                   status         |-> [kind |-> "No matches found", n |-> 0],
                   index          |-> NOT_FOUND]

\* findNext giving up without the second search from offset 0
findNext_NoRetry(value, start, end, searchTerm, cs, ww) ==
    IF searchTerm = <<>>
    THEN [selectionStart |-> start, selectionEnd |-> end, status |-> NoStatus,
          index |-> NOT_FOUND]
    ELSE LET currentPos == start + 1
             index      == findInText(value, searchTerm, currentPos, cs, ww)
         IN  IF index # -1
             THEN [selectionStart |-> index,
                   selectionEnd   |-> index + Len(searchTerm),
                   status         |-> [kind |-> "Found at line",
                                       n |-> LineNumber(value, index)],
                   index          |-> index]
             ELSE [selectionStart |-> start, selectionEnd |-> end,
                   status         |-> [kind |-> "No matches found", n |-> 0],
                   index          |-> NOT_FOUND]

\* findNext: the selection it leaves and the status text it writes, for the
\* editor text value with the selection start..end
findNext(value, start, end, searchTerm, cs, ww) ==
    IF searchTerm = <<>>
    THEN [selectionStart |-> start, selectionEnd |-> end, status |-> NoStatus,
          index |-> NOT_FOUND]
    ELSE LET currentPos == start + 1
             index      == findInText(value, searchTerm, currentPos, cs, ww)
             firstIndex == findInText(value, searchTerm, 0, cs, ww)
         IN  IF index # -1
             THEN [selectionStart |-> index,
                   selectionEnd   |-> index + Len(searchTerm),
                   status         |-> [kind |-> "Found at line",
                                       n |-> LineNumber(value, index)],
                   index          |-> index]
             ELSE IF firstIndex # -1
             THEN [selectionStart |-> firstIndex,
                   selectionEnd   |-> firstIndex + Len(searchTerm),
                   status         |-> [kind |-> "Wrapped to line",
                                       n |-> LineNumber(value, firstIndex)],
                   index          |-> firstIndex]
             ELSE [selectionStart |-> start, selectionEnd |-> end,
                   status         |-> [kind |-> "No matches found", n |-> 0],
                   index          |-> NOT_FOUND]

FindNext ==
    LET r == findNext(editorValue, selectionStart, selectionEnd,
                      findInput, caseSensitive, wholeWord)
    IN  /\ selectionStart' = r.selectionStart
        /\ selectionEnd' = r.selectionEnd
        /\ lastOp' = "findNext"
        /\ pre' = Snapshot
        /\ ret' = [startPos |-> selectionStart + 1, result |-> r.index,
                   status |-> r.status]
        /\ UNCHANGED <<tabs, activeTabId, editorValue, dialog>>
        /\ UNCHANGED <<deferred, panel>>

\* findPrevious: the selection it leaves and the status text it writes
findPrevious(value, start, end, searchTerm, cs, ww) ==
    IF searchTerm = <<>>
    THEN [selectionStart |-> start, selectionEnd |-> end, status |-> NoStatus,
          index |-> NOT_FOUND]
    ELSE LET currentPos == start - 1
             index      == findInTextReverse(value, searchTerm, currentPos, cs, ww)
             lastIndex  == findInTextReverse(value, searchTerm, Len(value), cs, ww)
         IN  IF index # -1
             THEN [selectionStart |-> index,
                   selectionEnd   |-> index + Len(searchTerm),
                   status         |-> [kind |-> "Found at line",
                                       n |-> LineNumber(value, index)],
                   index          |-> index]
             ELSE IF lastIndex # -1
             THEN [selectionStart |-> lastIndex,
                   selectionEnd   |-> lastIndex + Len(searchTerm),
                   status         |-> [kind |-> "Wrapped to line",
                                       n |-> LineNumber(value, lastIndex)],
                   index          |-> lastIndex]
             ELSE [selectionStart |-> start, selectionEnd |-> end,
                   status         |-> [kind |-> "No matches found", n |-> 0],
                   index          |-> NOT_FOUND]

FindPrevious ==
    LET r == findPrevious(editorValue, selectionStart, selectionEnd,
                          findInput, caseSensitive, wholeWord)
    IN  /\ selectionStart' = r.selectionStart
        /\ selectionEnd' = r.selectionEnd
        /\ lastOp' = "findPrevious"
        /\ pre' = Snapshot
        /\ ret' = [startPos |-> selectionStart - 1, result |-> r.index,
                   status |-> r.status]
        /\ UNCHANGED <<tabs, activeTabId, editorValue, dialog>>
        /\ UNCHANGED <<deferred, panel>>

\* the selection compared without regard to case
SelectionMatches_IgnoreCase(selected, searchTerm) ==
    ToLowerCase(selected) = ToLowerCase(searchTerm)

\* selected === searchTerm
SelectionMatches(selected, searchTerm) == selected = searchTerm

\* replaceOne; ret.result is 1 when the selection was replaced, ret.startPos
\* the caret the chained findNext started from
replaceOne ==
    LET start    == selectionStart
        end      == selectionEnd
        selected == Substring(editorValue, start, end)
    IN  /\ lastOp' = "replaceOne"
        /\ pre' = Snapshot
        /\ IF findInput = <<>>
           THEN /\ ret' = [startPos |-> start, result |-> 0, status |-> NoStatus]
                /\ UNCHANGED <<tabs, editorValue, selectionStart, selectionEnd>>
           ELSE IF SelectionMatches(selected, findInput)
           THEN LET ins == InsertText(editorValue, start, end, replaceInput)
                    r   == findNext(ins.value, ins.caret, ins.caret,
                                    findInput, caseSensitive, wholeWord)
                IN  /\ Len(ins.value) <= MaxText
                    /\ editorValue' = ins.value
                    /\ tabs' = handleInput(tabs, activeTabId, ins.value)
                    /\ selectionStart' = r.selectionStart
                    /\ selectionEnd' = r.selectionEnd
                    /\ ret' = [startPos |-> ins.caret, result |-> 1,
                               status |-> r.status]
           ELSE LET r == findNext(editorValue, start, end,
                                  findInput, caseSensitive, wholeWord)
                IN  /\ selectionStart' = r.selectionStart
                    /\ selectionEnd' = r.selectionEnd
                    /\ ret' = [startPos |-> start, result |-> 0,
                               status |-> r.status]
                    /\ UNCHANGED <<tabs, editorValue>>
        /\ UNCHANGED <<activeTabId, dialog>>
        /\ UNCHANGED <<deferred, panel>>

\* a split that finds its separators without regard to case
RECURSIVE SplitJoin_IgnoreCase(_, _, _, _)
SplitJoin_IgnoreCase(content, searchTerm, replaceTerm, from) ==
    LET p == IndexOf(ToLowerCase(content), ToLowerCase(searchTerm), from)
    IN  IF p = -1 THEN Substring(content, from, Len(content))
        ELSE Substring(content, from, p) \o replaceTerm
             \o SplitJoin_IgnoreCase(content, searchTerm, replaceTerm,
                                     p + Len(searchTerm))

\* originalContent.split(searchTerm).join(replaceTerm), from offset from on
RECURSIVE SplitJoin(_, _, _, _)
SplitJoin(content, searchTerm, replaceTerm, from) ==
    LET p == IndexOf(content, searchTerm, from)
    IN  IF p = -1 THEN Substring(content, from, Len(content))
        ELSE Substring(content, from, p) \o replaceTerm
             \o SplitJoin(content, searchTerm, replaceTerm, p + Len(searchTerm))

\* (originalContent.match(new RegExp(<escaped searchTerm>, 'g')) || []).length
RECURSIVE RegExpLiteralMatchCount(_, _, _)
RegExpLiteralMatchCount(content, searchTerm, from) ==
    IF from > Len(content) THEN 0
    ELSE IF MatchesAt(content, searchTerm, from)
         THEN 1 + RegExpLiteralMatchCount(content, searchTerm, from + Len(searchTerm))
         ELSE RegExpLiteralMatchCount(content, searchTerm, from + 1)

\* replaceAll; ret.result is the count it reports
replaceAll ==
    LET originalContent == editorValue
        newContent == SplitJoin(originalContent, findInput, replaceInput, 0)
        count      == RegExpLiteralMatchCount(originalContent, findInput, 0)
    IN  /\ lastOp' = "replaceAll"
        /\ pre' = Snapshot
        /\ IF findInput = <<>>
           THEN /\ ret' = [startPos |-> 0, result |-> 0, status |-> NoStatus]
                /\ UNCHANGED <<tabs, editorValue, selectionStart, selectionEnd>>
           ELSE IF count = 0
           THEN /\ ret' = [startPos |-> 0, result |-> 0,
                           status |-> [kind |-> "No matches found", n |-> 0]]
                /\ UNCHANGED <<tabs, editorValue, selectionStart, selectionEnd>>
           ELSE /\ Len(newContent) <= MaxText
                /\ ret' = [startPos |-> 0, result |-> count,
                           status |-> [kind |-> "Replaced occurrences", n |-> count]]
                /\ editorValue' = newContent
                /\ selectionStart' = Len(newContent)
                /\ selectionEnd' = Len(newContent)
                /\ tabs' = handleInput(tabs, activeTabId, newContent)
        /\ UNCHANGED <<activeTabId, dialog>>
        /\ UNCHANGED <<deferred, panel>>

\* content.split('\n'), from offset from on
RECURSIVE SplitLines(_, _)
SplitLines(content, from) ==
    LET p == IndexOf(content, <<"\n">>, from)
    IN  IF p = -1 THEN <<Substring(content, from, Len(content))>>
        ELSE <<Substring(content, from, p)>> \o SplitLines(content, p + 1)

\* new RegExp('\\b' + <escaped source> + '\\b', ignoreCase ? 'i' : '').test(line)
RegExpWordTest(line, source, ignoreCase) ==
    \E i \in 0..Len(line) : RegExpWordMatchAt(line, source, ignoreCase, i)

\* the test searchInAllFiles applies to one line
lineMatches(line, searchTerm, cs, ww) ==
    LET searchIn  == IF cs THEN line ELSE ToLowerCase(line)
        searchFor == IF cs THEN searchTerm ELSE ToLowerCase(searchTerm)
    IN  IF ww THEN RegExpWordTest(line, searchFor, ~cs)
        ELSE IndexOf(searchIn, searchFor, 0) # -1

\* lines.forEach((line, index) => ...) from index on: the matches pushed
RECURSIVE linesForEach(_, _, _, _, _)
linesForEach(lines, index, searchTerm, cs, ww) ==
    IF index >= Len(lines) THEN <<>>
    ELSE (IF lineMatches(lines[index + 1], searchTerm, cs, ww)
          THEN <<[lineNum |-> index + 1, line |-> lines[index + 1]]>>
          ELSE <<>>)
         \o linesForEach(lines, index + 1, searchTerm, cs, ww)

\* the loop over the tabs keeping a tab whose matches are empty
RECURSIVE tabsForEach_KeepEmpty(_, _, _, _, _, _)
tabsForEach_KeepEmpty(ts, i, searchTerm, cs, ww, acc) ==
    IF i > Len(ts) THEN acc
    ELSE LET matches == linesForEach(SplitLines(ts[i].content, 0), 0,
                                     searchTerm, cs, ww)
         IN  tabsForEach_KeepEmpty(ts, i + 1, searchTerm, cs, ww,
                 [totalMatches |-> acc.totalMatches + Len(matches),
                  fileResults  |-> Append(acc.fileResults,
                                          [tab |-> ts[i], matches |-> matches])])

\* the loop over the tabs adding one to the total for each file with matches
RECURSIVE tabsForEach_CountFiles(_, _, _, _, _, _)
tabsForEach_CountFiles(ts, i, searchTerm, cs, ww, acc) ==
    IF i > Len(ts) THEN acc
    ELSE LET matches == linesForEach(SplitLines(ts[i].content, 0), 0,
                                     searchTerm, cs, ww)
         IN  tabsForEach_CountFiles(ts, i + 1, searchTerm, cs, ww,
                 IF Len(matches) > 0
                 THEN [totalMatches |-> acc.totalMatches + 1,
                       fileResults  |-> Append(acc.fileResults,
                                               [tab |-> ts[i], matches |-> matches])]
                 ELSE acc)

\* this.tabs.forEach(tab => ...) from the i-th tab on, acc holding
\* totalMatches and fileResults
RECURSIVE tabsForEach(_, _, _, _, _, _)
tabsForEach(ts, i, searchTerm, cs, ww, acc) ==
    IF i > Len(ts) THEN acc
    ELSE LET matches == linesForEach(SplitLines(ts[i].content, 0), 0,
                                     searchTerm, cs, ww)
         IN  tabsForEach(ts, i + 1, searchTerm, cs, ww,
                 IF Len(matches) > 0
                 THEN [totalMatches |-> acc.totalMatches + Len(matches),
                       fileResults  |-> Append(acc.fileResults,
                                               [tab |-> ts[i], matches |-> matches])]
                 ELSE acc)

\* searchInAllFiles: the total, the per-file results and the status text
searchInAllFiles(ts, searchTerm, cs, ww) ==
    LET r == tabsForEach(ts, 1, searchTerm, cs, ww,
                         [totalMatches |-> 0, fileResults |-> <<>>])
    IN  [totalMatches |-> r.totalMatches,
         fileResults  |-> r.fileResults,
         status       |-> IF r.totalMatches = 0
                          THEN [kind |-> "No matches found in any file", n |-> 0]
                          ELSE [kind |-> "Found matches in files",
                                n |-> r.totalMatches]]

\* the .result-line elements searchInAllFiles renders, file after file
RECURSIVE resultLines(_)
resultLines(fileResults) ==
    IF fileResults = <<>> THEN <<>>
    ELSE LET fr == fileResults[1]
         IN  [i \in 1..Len(fr.matches) |->
                 [tabId |-> fr.tab.id, lineNum |-> fr.matches[i].lineNum]]
             \o resultLines(Tail(fileResults))

\* the panel searchInAllFiles leaves: closed on no match, else the result
\* lines with the term and case option their click handlers have captured
\* (wholeWord is kept for reference only; no handler captures it)
searchResultsPanel(r, searchTerm, cs, ww) ==
    IF r.totalMatches = 0 THEN NoPanel
    ELSE [lines |-> resultLines(r.fileResults), searchTerm |-> searchTerm,
          caseSensitive |-> cs, wholeWord |-> ww]

\* searchAllFilesNow handing an empty term on to searchInAllFiles
searchAllFilesNow_NoEmptyGuard ==
    /\ lastOp' = "searchAllFilesNow"
    /\ pre' = Snapshot
    /\ LET r == searchInAllFiles(tabs, findInput, caseSensitive, wholeWord)
       IN  /\ ret' = [startPos |-> 0, result |-> r.totalMatches,
                      status |-> r.status, fileResults |-> r.fileResults,
                      toast |-> ""]
           /\ panel' = searchResultsPanel(r, findInput, caseSensitive, wholeWord)
    /\ UNCHANGED <<tabs, activeTabId, editorValue, selectionStart, selectionEnd,
                   dialog, deferred>>

\* searchAllFilesNow storing the editor text in the active tab before it
\* searches
searchAllFilesNow_StoresEditor ==
    /\ lastOp' = "searchAllFilesNow"
    /\ pre' = Snapshot
    /\ tabs' = handleInput(tabs, activeTabId, editorValue)
    /\ LET r == searchInAllFiles(tabs', findInput, caseSensitive, wholeWord)
       IN  /\ ret' = [startPos |-> 0, result |-> r.totalMatches,
                      status |-> r.status, fileResults |-> r.fileResults,
                      toast |-> ""]
           /\ panel' = searchResultsPanel(r, findInput, caseSensitive, wholeWord)
    /\ UNCHANGED <<activeTabId, editorValue, selectionStart, selectionEnd,
                   dialog, deferred>>

\* searchAllFilesNow; ret.result is the total searchInAllFiles reports
searchAllFilesNow ==
    /\ lastOp' = "searchAllFilesNow"
    /\ pre' = Snapshot
    /\ IF findInput = <<>>
       THEN /\ ret' = [startPos |-> 0, result |-> 0, status |-> NoStatus,
                       fileResults |-> <<>>, toast |-> "Please enter search text"]
            /\ UNCHANGED panel
       ELSE LET r == searchInAllFiles(tabs, findInput, caseSensitive, wholeWord)
            IN  /\ ret' = [startPos |-> 0, result |-> r.totalMatches,
                           status |-> r.status, fileResults |-> r.fileResults,
                           toast |-> ""]
                /\ panel' = searchResultsPanel(r, findInput, caseSensitive,
                                               wholeWord)
    /\ UNCHANGED <<tabs, activeTabId, editorValue, selectionStart, selectionEnd,
                   dialog, deferred>>

\* countOccurrences with the scope radio button on searchScope
countOccurrences ==
    \E searchScope \in {"current", "all"} :
        /\ lastOp' = "countOccurrences"
        /\ pre' = Snapshot
        /\ IF findInput = <<>>
           THEN /\ ret' = [startPos |-> 0, result |-> 0, status |-> NoStatus,
                           fileResults |-> <<>>, scope |-> searchScope]
                /\ UNCHANGED panel
           ELSE IF searchScope = "current"
           THEN LET count == countInText(editorValue, findInput,
                                         caseSensitive, wholeWord)
                IN  /\ ret' = [startPos |-> 0, result |-> count,
                               status |-> [kind |-> "Found occurrences",
                                           n |-> count],
                               fileResults |-> <<>>, scope |-> searchScope]
                    /\ UNCHANGED panel
           ELSE LET r == searchInAllFiles(tabs, findInput, caseSensitive, wholeWord)
                IN  /\ ret' = [startPos |-> 0, result |-> r.totalMatches,
                               status |-> r.status,
                               fileResults |-> r.fileResults,
                               scope |-> searchScope]
                    /\ panel' = searchResultsPanel(r, findInput, caseSensitive,
                                                   wholeWord)
        /\ UNCHANGED <<tabs, activeTabId, editorValue, selectionStart,
                       selectionEnd, dialog, deferred>>

Next ==
    \/ TypeChar
    \/ SetSelection
    \/ SetFindInput
    \/ SetReplaceInput
    \/ ToggleCaseSensitive
    \/ ToggleWholeWord
    \/ FindNext
    \/ replaceOne
    \/ replaceAll

Spec == Init /\ [][Next]_vars

----------------------------------------------------------------------------
(* SpecDialog: every button of the find / replace dialog pressed on a
   restored tab, the fields holding any term, the empty one included *)

InitDialog ==
    /\ tabs \in StoredSessions
    /\ activeTabId = tabs[1].id
    /\ editorValue = tabs[1].content
    /\ selectionStart = Len(editorValue)
    /\ selectionEnd = Len(editorValue)
    /\ findInput \in Strings(MaxTerm)
    /\ replaceInput \in Strings(MaxRepl)
    /\ caseSensitive \in BOOLEAN
    /\ wholeWord \in BOOLEAN
    /\ lastOp = "init"
    /\ pre = NoPre
    /\ ret = NoRet
    /\ Idle

NextDialog ==
    \/ FindNext
    \/ FindPrevious
    \/ countOccurrences
    \/ searchAllFilesNow
    \/ replaceOne
    \/ replaceAll

SpecDialog == InitDialog /\ [][NextDialog]_vars

----------------------------------------------------------------------------
(* SpecSearchAll: Search All Files over a restored session of several tabs *)

MaxDoc == 3       \* longest content of a restored tab
MaxTabs == 2      \* most tabs of a restored session

DocChars == {"a", " ", "\n"}
Docs == UNION {[1..k -> DocChars] : k \in 0..MaxDoc}

TabNames == <<"a.txt", "b.txt", "c.txt", "d.txt">>

\* sessions of one to MaxTabs saved tabs with distinct ids
StoredTabLists ==
    UNION {{[i \in 1..k |-> [id |-> i, name |-> TabNames[i],
                              content |-> c[i], modified |-> FALSE]] :
               c \in [1..k -> Docs]} : k \in 1..MaxTabs}

InitSearchAll ==
    /\ tabs \in StoredTabLists
    /\ activeTabId = tabs[1].id
    /\ editorValue = tabs[1].content
    /\ selectionStart = Len(editorValue)
    /\ selectionEnd = Len(editorValue)
    /\ findInput \in Strings(MaxTerm) \ {<<>>}
    /\ replaceInput = <<>>
    /\ caseSensitive \in BOOLEAN
    /\ wholeWord \in BOOLEAN
    /\ lastOp = "init"
    /\ pre = NoPre
    /\ ret = NoRet
    /\ Idle

NextSearchAll ==
    \/ searchAllFilesNow
    \/ countOccurrences

SpecSearchAll == InitSearchAll /\ [][NextSearchAll]_vars

----------------------------------------------------------------------------
(* SpecReplace: Replace All pressed on a restored tab with the dialog filled *)

InitReplace ==
    /\ tabs \in StoredSessions
    /\ activeTabId = tabs[1].id
    /\ editorValue = tabs[1].content
    /\ selectionStart = Len(editorValue)
    /\ selectionEnd = Len(editorValue)
    /\ findInput \in Strings(MaxPat) \ {<<>>}
    /\ replaceInput \in Strings(MaxRepl)
    /\ caseSensitive \in BOOLEAN
    /\ wholeWord \in BOOLEAN
    /\ lastOp = "init"
    /\ pre = NoPre
    /\ ret = NoRet
    /\ Idle

NextReplace == replaceAll

SpecReplace == InitReplace /\ [][NextReplace]_vars

----------------------------------------------------------------------------
(* SpecScript: the copy of the editor in script.js, whose replaceAll has no
   early return for a count of zero *)

\* replaceAll of script.js; ret.result is the count it reports
script_replaceAll ==
    LET originalContent == editorValue
        newContent == SplitJoin(originalContent, findInput, replaceInput, 0)
        count      == RegExpLiteralMatchCount(originalContent, findInput, 0)
    IN  /\ lastOp' = "script.replaceAll"
        /\ pre' = Snapshot
        /\ IF findInput = <<>>
           THEN /\ ret' = [startPos |-> 0, result |-> 0, status |-> NoStatus]
                /\ UNCHANGED <<tabs, editorValue, selectionStart, selectionEnd>>
           ELSE /\ Len(newContent) <= MaxText
                /\ ret' = [startPos |-> 0, result |-> count,
                           status |-> [kind |-> "Replaced occurrences", n |-> count]]
                /\ editorValue' = newContent
                /\ selectionStart' = Len(newContent)
                /\ selectionEnd' = Len(newContent)
                /\ tabs' = handleInput(tabs, activeTabId, newContent)
        /\ UNCHANGED <<activeTabId, dialog>>
        /\ UNCHANGED <<deferred, panel>>

NextScript ==
    \/ SetSelection
    \/ script_replaceAll

SpecScript == InitReplace /\ [][NextScript]_vars

----------------------------------------------------------------------------
(* SpecFind: navigating a text with Find Next, nothing edited in between *)

\* the editor holds a text typed into it, no tab is open, and the dialog
\* holds a search term
InitFind ==
    /\ tabs = <<>>
    /\ activeTabId = NULL
    /\ editorValue \in Strings(MaxText)
    /\ selectionStart = 0
    /\ selectionEnd = 0
    /\ findInput \in Strings(MaxPat) \ {<<>>}
    /\ replaceInput = <<>>
    /\ caseSensitive \in BOOLEAN
    /\ wholeWord \in BOOLEAN
    /\ lastOp = "init"
    /\ pre = NoPre
    /\ ret = NoRet
    /\ Idle

NextFind ==
    \/ SetSelection
    \/ FindNext

SpecFind == InitFind /\ [][NextFind]_vars

----------------------------------------------------------------------------
(* SpecFindPrevious: navigating a text with Find Previous *)

NextFindPrevious ==
    \/ SetSelection
    \/ FindPrevious

SpecFindPrevious == InitSearch /\ [][NextFindPrevious]_vars

----------------------------------------------------------------------------
(* Tabs: switching between the open buffers *)

MaxBuf == 2       \* longest content of the first tab of the two-tab session;
                  \* the second tab holds one character less

\* the text area as switchTab and its callers pass it on
Editor == [activeTabId |-> activeTabId, value |-> editorValue,
           selectionStart |-> selectionStart, selectionEnd |-> selectionEnd]

\* editor.value = text: a changed value puts the caret at the end, an equal
\* one leaves the selection alone
SetValue(ed, text) ==
    IF text = ed.value THEN ed
    ELSE [ed EXCEPT !.value = text, !.selectionStart = Len(text),
                    !.selectionEnd = Len(text)]

\* the editor after switchTab(tabId); an id no open tab has changes nothing
switchTab(ts, ed, tabId) ==
    LET k == TabIndex(ts, tabId)
    IN  IF k = 0 THEN ed
        ELSE [SetValue(ed, ts[k].content) EXCEPT !.activeTabId = tabId]

ShowEditor(ed) ==
    /\ activeTabId' = ed.activeTabId
    /\ editorValue' = ed.value
    /\ selectionStart' = ed.selectionStart
    /\ selectionEnd' = ed.selectionEnd

\* Math.max() of no numbers, -Infinity: below every id, and unchanged by + 1
NegInfinity == -1000

\* NaN, which is the id of no tab
NaN == -2000

\* parseInt(dataset.tabId) of an id rendered into the page: the digits of a
\* number, NaN for the text "-Infinity"
parseInt(id) == IF id = NegInfinity THEN NaN ELSE id

\* a click on a tab of the tab strip
SwitchTab ==
    \E k \in 1..Len(tabs) :
        LET tabId == parseInt(tabs[k].id)
        IN  /\ lastOp' = "switchTab"
            /\ pre' = Snapshot
            /\ ret' = [startPos |-> 0, result |-> tabId, status |-> NoStatus]
            /\ ShowEditor(switchTab(tabs, Editor, tabId))
            /\ UNCHANGED <<tabs, dialog, deferred, panel>>

----------------------------------------------------------------------------
(* SpecBuffers: the dialog buttons pressed on a restored session of two tabs,
   the user switching between them *)

StoredBuffers ==
    {<<[id |-> 1, name |-> "a.txt", content |-> c1, modified |-> FALSE],
       [id |-> 2, name |-> "b.txt", content |-> c2, modified |-> FALSE]>> :
        c1 \in Strings(MaxBuf), c2 \in Strings(MaxBuf - 1)}

InitBuffers ==
    \E stored \in StoredBuffers :
        /\ tabs = stored
        /\ activeTabId = stored[1].id
        /\ editorValue = stored[1].content
        /\ selectionStart = Len(editorValue)
        /\ selectionEnd = Len(editorValue)
        /\ findInput \in Strings(MaxTerm) \ {<<>>}
        /\ replaceInput \in Strings(MaxRepl)
        /\ caseSensitive \in BOOLEAN
        /\ wholeWord \in BOOLEAN
        /\ lastOp = "init"
        /\ pre = NoPre
        /\ ret = NoRet
        /\ Idle

NextBuffers ==
    \/ SwitchTab
    \/ FindNext
    \/ FindPrevious
    \/ countOccurrences
    \/ searchAllFilesNow
    \/ replaceOne
    \/ replaceAll

SpecBuffers == InitBuffers /\ [][NextBuffers]_vars

----------------------------------------------------------------------------
(* SpecTabs: tabs created, opened from files, switched and closed, from the
   state the constructor and loadOpenTabs leave *)

MaxOpen == 3      \* newFile is pressed while fewer tabs than this are open
MaxId == 3        \* a tab is created while its id is at most this
MaxFiles == 2     \* most files picked in one file dialog
MAX_FILES == 10   \* openFile: files beyond the tenth are dropped

MathMax(S) == IF S = {} THEN NegInfinity ELSE CHOOSE m \in S : \A n \in S : n <= m

PlusOne(n) == IF n = NegInfinity THEN NegInfinity ELSE n + 1

TabIds(ts) == {ts[i].id : i \in 1..Len(ts)}

Untitled(id) == [id |-> id, name |-> "Untitled", content |-> <<>>,
                 modified |-> FALSE]

\* tab list and editor after newFile
newFile(ts, ed) ==
    LET newId == PlusOne(MathMax(TabIds(ts)))
        pushed == Append(ts, Untitled(newId))
    IN  [tabs |-> pushed, editor |-> switchTab(pushed, ed, newId), newId |-> newId]

NewFile ==
    /\ Len(tabs) < MaxOpen
    /\ LET r == newFile(tabs, Editor)
       IN  /\ r.newId <= MaxId
           /\ lastOp' = "newFile"
           /\ pre' = Snapshot
           /\ ret' = [startPos |-> 0, result |-> r.newId, status |-> NoStatus]
           /\ tabs' = r.tabs
           /\ ShowEditor(r.editor)
    /\ UNCHANGED <<dialog, deferred, panel>>

\* tab list and editor after closeTab(tabId); confirmed is the answer to the
\* confirm() a modified tab asks for
closeTab(ts, ed, tabId, confirmed) ==
    LET k == TabIndex(ts, tabId)
    IN  IF k = 0 \/ (ts[k].modified /\ ~confirmed)
        THEN [tabs |-> ts, editor |-> ed]
        ELSE LET filtered == SelectSeq(ts, LAMBDA t : t.id # tabId)
                 kept == IF filtered = <<>> THEN <<Untitled(0)>> ELSE filtered
             IN  [tabs |-> kept,
                  editor |-> IF ed.activeTabId = tabId
                             THEN switchTab(kept, ed, kept[1].id)
                             ELSE ed]

\* a click on the close button of a tab, or the close shortcut, which closes
\* the active tab
CloseTab ==
    \E tabId \in {parseInt(id) : id \in TabIds(tabs)} \cup {activeTabId} :
        \E confirmed \in BOOLEAN :
            LET r == closeTab(tabs, Editor, tabId, confirmed)
            IN  /\ lastOp' = "closeTab"
                /\ pre' = Snapshot
                /\ ret' = [startPos |-> 0, result |-> tabId, status |-> NoStatus]
                /\ tabs' = r.tabs
                /\ ShowEditor(r.editor)
                /\ UNCHANGED <<dialog, deferred, panel>>

\* the files a file dialog can hand to openFile; tooLarge is
\* file.size > maxSize
Files ==
    {[name |-> "a.txt", content |-> <<"a">>, tooLarge |-> big] : big \in BOOLEAN}
    \cup
    {[name |-> "b.txt", content |-> <<"A">>, tooLarge |-> big] : big \in BOOLEAN}

PickedFiles ==
    {fs \in UNION {[1..n -> Files] : n \in 1..MaxFiles} :
        \A i, j \in 1..Len(fs) : i # j => fs[i].name # fs[j].name}

\* openFile: the synchronous part, which skips the files that are too large
\* and starts a reader for each of the others. One call is in flight at a
\* time.
OpenFile ==
    \E picked \in PickedFiles :
        LET files == SubSeq(picked, 1, Min(Len(picked), MAX_FILES))
            skipped == {i \in 1..Len(files) : files[i].tooLarge}
        IN  /\ batch.due = {}
            /\ isLoadingFiles' = TRUE
            /\ batch' = [files |-> files, due |-> (1..Len(files)) \ skipped,
                         loadedCount |-> 0, skippedCount |-> Cardinality(skipped)]
            /\ lastOp' = "openFile"
            /\ pre' = Snapshot
            /\ ret' = [startPos |-> 0, result |-> Len(files), status |-> NoStatus]
            /\ UNCHANGED <<tabs, activeTabId, editorValue, selectionStart,
                           selectionEnd, dialog, timers, panel>>

\* this.tabs.find(t => t.name === name): index of the first such tab, 0 if none
TabNamed(ts, name) ==
    LET hits == {i \in 1..Len(ts) : ts[i].name = name}
    IN  IF hits = {} THEN 0 ELSE CHOOSE i \in hits : \A j \in hits : i <= j

\* reader.onload of one of the files being read, in any order
ReaderOnload ==
    \E i \in batch.due :
        LET file == batch.files[i]
            existing == TabNamed(tabs, file.name)
            loaded == batch.loadedCount + 1
        IN  /\ lastOp' = "reader.onload"
            /\ pre' = Snapshot
            /\ ret' = [startPos |-> 0, result |-> i, status |-> NoStatus]
            /\ batch' = [batch EXCEPT !.due = @ \ {i}, !.loadedCount = loaded]
            /\ IF existing # 0
               THEN /\ ShowEditor(switchTab(tabs, Editor, tabs[existing].id))
                    /\ UNCHANGED <<tabs, isLoadingFiles>>
               ELSE LET newId == IF Len(tabs) > 0
                                 THEN PlusOne(MathMax(TabIds(tabs))) ELSE 0
                        pushed == Append(tabs, [id |-> newId, name |-> file.name,
                                                content |-> file.content,
                                                modified |-> FALSE])
                    IN  /\ newId <= MaxId
                        /\ tabs' = pushed
                        /\ ShowEditor(switchTab(pushed, Editor, newId))
                        /\ isLoadingFiles' =
                               IF loaded + batch.skippedCount = Len(batch.files)
                               THEN FALSE ELSE isLoadingFiles
            /\ UNCHANGED <<dialog, timers, panel>>

\* reader.onerror of one of the files being read
ReaderOnerror ==
    \E i \in batch.due :
        /\ lastOp' = "reader.onerror"
        /\ pre' = Snapshot
        /\ ret' = [startPos |-> 0, result |-> i, status |-> NoStatus]
        /\ batch' = [batch EXCEPT !.due = @ \ {i}]
        /\ UNCHANGED <<tabs, activeTabId, editorValue, selectionStart,
                       selectionEnd, dialog, isLoadingFiles, timers, panel>>

\* the session loadOpenTabs finds: nothing, or one saved file
StoredTabs ==
    {<<>>} \cup
    {<<[id |-> 1, name |-> "notes.txt", content |-> <<"a", " ">>, modified |-> m]>> :
        m \in BOOLEAN}

InitTabs ==
    \E stored \in StoredTabs :
        /\ tabs = stored
        /\ activeTabId = IF stored = <<>> THEN NULL ELSE stored[1].id
        /\ editorValue = IF stored = <<>> THEN <<>> ELSE stored[1].content
        /\ selectionStart = Len(editorValue)
        /\ selectionEnd = Len(editorValue)
        /\ findInput = <<>>
        /\ replaceInput = <<>>
        /\ caseSensitive = FALSE
        /\ wholeWord = FALSE
        /\ lastOp = "init"
        /\ pre = NoPre
        /\ ret = NoRet
        /\ Idle

NextTabs ==
    \/ NewFile
    \/ OpenFile
    \/ ReaderOnload
    \/ ReaderOnerror
    \/ SwitchTab
    \/ CloseTab

SpecTabs == InitTabs /\ [][NextTabs]_vars

----------------------------------------------------------------------------
(* SpecEditing: the handlers that change the editor text, on a restored
   session of two tabs *)

MaxTabbed == 5    \* longest text the Tab key leaves in the editor

TabSpaces == <<" ", " ", " ", " ">>

\* handleKeydown for the Tab key: four spaces replace the selection
PressTab ==
    LET start == selectionStart
        end   == selectionEnd
        value == editorValue
        tabbed == Substring(value, 0, start) \o TabSpaces
                  \o Substring(value, end, Len(value))
    IN  /\ Len(tabbed) <= MaxTabbed
        /\ lastOp' = "handleKeydown"
        /\ pre' = Snapshot
        /\ ret' = [startPos |-> start, result |-> 0, status |-> NoStatus]
        /\ editorValue' = tabbed
        /\ selectionStart' = start + 4
        /\ selectionEnd' = start + 4
        /\ UNCHANGED <<tabs, activeTabId, dialog, deferred, panel>>

\* handlePaste: formatted is what the JSON / XML / CSS formatters made of the
\* pasted text, empty when none applied. A formatted text is inserted and
\* stored by the handler; otherwise the browser inserts the pasted text and
\* the input event runs handleInput.
Paste ==
    \E pastedText \in Strings(1) \ {<<>>} : \E formatted \in Strings(1) :
        LET text == IF formatted # <<>> /\ formatted # pastedText
                    THEN formatted ELSE pastedText
            ins == InsertText(editorValue, selectionStart, selectionEnd, text)
        IN  /\ Len(ins.value) <= MaxText
            /\ lastOp' = "handlePaste"
            /\ pre' = Snapshot
            /\ ret' = [startPos |-> selectionStart, result |-> 0,
                       status |-> NoStatus]
            /\ editorValue' = ins.value
            /\ selectionStart' = ins.caret
            /\ selectionEnd' = ins.caret
            /\ tabs' = handleInput(tabs, activeTabId, ins.value)
            /\ UNCHANGED <<activeTabId, dialog, deferred, panel>>

NextEditing ==
    \/ TypeChar
    \/ PressTab
    \/ Paste
    \/ FindNext
    \/ replaceOne
    \/ replaceAll
    \/ SwitchTab

\* a restored session of a one-character file and an empty one, the find
\* field filled
InitEditing ==
    \E c \in Strings(1) :
        /\ tabs = <<[id |-> 1, name |-> "a.txt", content |-> c, modified |-> FALSE],
                    [id |-> 2, name |-> "b.txt", content |-> <<>>,
                     modified |-> FALSE]>>
        /\ activeTabId = 1
        /\ editorValue = c
        /\ selectionStart = Len(c)
        /\ selectionEnd = Len(c)
        /\ findInput = <<"a">>
        /\ replaceInput = <<>>
        /\ caseSensitive = FALSE
        /\ wholeWord = FALSE
        /\ lastOp = "init"
        /\ pre = NoPre
        /\ ret = NoRet
        /\ Idle

SpecEditing == InitEditing /\ [][NextEditing]_vars

----------------------------------------------------------------------------
(* SpecResults: Search All Files on a restored session of two tabs, result
   lines clicked, tabs switched and closed while the delayed goToLine is due *)

MaxLine == 4      \* longest content of the first tab of the searched session
MaxTimers == 2    \* a result line is clicked while fewer timers are due

\* charCount after the loop over the first n lines: their lengths, each
\* with its line break
RECURSIVE charCountOf(_, _)
charCountOf(lines, n) ==
    IF n <= 0 THEN 0 ELSE charCountOf(lines, n - 1) + Len(lines[n]) + 1

\* the selection goToLine(lineNum, searchTerm, caseSensitive) makes in the
\* editor text; ww is the whole-word option of the search, which goToLine
\* is not given. setSelectionRange keeps both ends within the text.
goToLine(value, lineNum, searchTerm, cs, ww) ==
    LET lines == SplitLines(value, 0)
        charCount == charCountOf(lines, Min(lineNum - 1, Len(lines)))
        line == IF lineNum >= 1 /\ lineNum <= Len(lines) THEN lines[lineNum]
                ELSE <<>>
        searchIn == IF cs THEN line ELSE ToLowerCase(line)
        searchFor == IF cs THEN searchTerm ELSE ToLowerCase(searchTerm)
        termIndex == IndexOf(searchIn, searchFor, 0)
        range == IF searchTerm # <<>> /\ line # <<>> /\ termIndex # -1
                 THEN [start |-> charCount + termIndex,
                       end |-> charCount + termIndex + Len(searchTerm)]
                 ELSE [start |-> charCount, end |-> charCount + Len(line)]
    IN  [selectionStart |-> Min(range.start, Len(value)),
         selectionEnd |-> Min(range.end, Len(value))]

\* a click on a result line: switchTab now, goToLine in 50 ms
ClickResultLine ==
    \E i \in 1..Len(panel.lines) :
        LET tabId == parseInt(panel.lines[i].tabId)
            lineNum == panel.lines[i].lineNum
        IN  /\ Len(timers) < MaxTimers
            /\ lastOp' = "clickResultLine"
            /\ pre' = Snapshot
            /\ ret' = [startPos |-> lineNum, result |-> tabId,
                       status |-> NoStatus]
            /\ ShowEditor(switchTab(tabs, Editor, tabId))
            /\ timers' = Append(timers,
                                [tabId |-> tabId, lineNum |-> lineNum,
                                 searchTerm |-> panel.searchTerm,
                                 caseSensitive |-> panel.caseSensitive,
                                 wholeWord |-> panel.wholeWord])
            /\ UNCHANGED <<tabs, dialog, isLoadingFiles, batch, panel>>

\* the oldest timer runs: goToLine on the text the editor holds by then
TimerFires ==
    /\ timers # <<>>
    /\ LET t == Head(timers)
           r == goToLine(editorValue, t.lineNum, t.searchTerm, t.caseSensitive,
                         t.wholeWord)
       IN  /\ lastOp' = "goToLine"
           /\ pre' = Snapshot
           /\ ret' = [startPos |-> t.lineNum, result |-> t.tabId,
                      status |-> NoStatus, timer |-> t]
           /\ selectionStart' = r.selectionStart
           /\ selectionEnd' = r.selectionEnd
    /\ timers' = Tail(timers)
    /\ UNCHANGED <<tabs, activeTabId, editorValue, dialog, isLoadingFiles,
                   batch, panel>>

ResultDocs == UNION {[1..k -> DocChars] : k \in 0..MaxLine}

InitResults ==
    \E c \in ResultDocs :
        /\ tabs = <<[id |-> 1, name |-> "a.txt", content |-> c, modified |-> FALSE],
                    [id |-> 2, name |-> "b.txt", content |-> <<"a">>,
                     modified |-> FALSE]>>
        /\ activeTabId = 1
        /\ editorValue = c
        /\ selectionStart = Len(c)
        /\ selectionEnd = Len(c)
        /\ findInput \in Strings(MaxTerm) \ {<<>>}
        /\ replaceInput = <<>>
        /\ caseSensitive \in BOOLEAN
        /\ wholeWord \in BOOLEAN
        /\ lastOp = "init"
        /\ pre = NoPre
        /\ ret = NoRet
        /\ Idle

NextResults ==
    \/ searchAllFilesNow
    \/ ClickResultLine
    \/ TimerFires
    \/ SwitchTab
    \/ CloseTab

SpecResults == InitResults /\ [][NextResults]_vars

----------------------------------------------------------------------------
(* SpecHighlight: highlightMatch applied to every bounded line and term.
   Its result is a sequence of characters and of the two tags, each tag one
   element. *)

MaxHtml == 3      \* longest line handed to highlightMatch

HtmlChars == {"a", "A", "&"}

SpanOpen == "<span class=\"match-highlight\">"
SpanClose == "</span>"

\* the replacement escapeHtml makes for one character
escapeChar(c) ==
    CASE c = "&"  -> <<"&", "a", "m", "p", ";">>
      [] c = "<"  -> <<"&", "l", "t", ";">>
      [] c = ">"  -> <<"&", "g", "t", ";">>
      [] c = "\"" -> <<"&", "q", "u", "o", "t", ";">>
      [] c = "'"  -> <<"&", "#", "3", "9", ";">>
      [] OTHER    -> <<c>>

\* str.replace(/[&<>"']/g, ...)
RECURSIVE escapeHtml(_)
escapeHtml(str) ==
    IF str = <<>> THEN <<>> ELSE escapeChar(Head(str)) \o escapeHtml(Tail(str))

\* escapedText.replace(new RegExp('(' + term + ')', flags), '<span ...>$1</span>')
\* from offset i on: every match, left to right and not overlapping, is
\* wrapped in the two tags. The terms of the model hold no character the
\* expression escapes.
RECURSIVE wrapMatches(_, _, _, _)
wrapMatches(escapedText, searchTerm, ignoreCase, i) ==
    IF i >= Len(escapedText) THEN <<>>
    ELSE IF Occurs(escapedText, searchTerm, i, ~ignoreCase)
    THEN <<SpanOpen>> \o Substring(escapedText, i, i + Len(searchTerm))
         \o <<SpanClose>>
         \o wrapMatches(escapedText, searchTerm, ignoreCase, i + Len(searchTerm))
    ELSE <<escapedText[i + 1]>>
         \o wrapMatches(escapedText, searchTerm, ignoreCase, i + 1)

highlightMatch(text, searchTerm, cs) ==
    wrapMatches(escapeHtml(text), searchTerm, ~cs, 0)

InitHighlight ==
    /\ tabs = <<>>
    /\ activeTabId = NULL
    /\ editorValue \in UNION {[1..k -> HtmlChars] : k \in 0..MaxHtml}
    /\ selectionStart = 0
    /\ selectionEnd = 0
    /\ findInput \in UNION {[1..k -> HtmlChars] : k \in 1..MaxPat}
    /\ replaceInput = <<>>
    /\ caseSensitive \in BOOLEAN
    /\ wholeWord = FALSE
    /\ lastOp = "init"
    /\ pre = NoPre
    /\ ret = NoRet
    /\ Idle

\* highlightMatch(line, searchTerm, caseSensitive) on the line in editorValue
CallHighlightMatch ==
    /\ lastOp' = "highlightMatch"
    /\ ret' = [startPos |-> 0, result |-> 0, status |-> NoStatus,
               html |-> highlightMatch(editorValue, findInput, caseSensitive)]
    /\ UNCHANGED inputs
    /\ UNCHANGED <<deferred, panel>>

NextHighlight == CallHighlightMatch

SpecHighlight == InitHighlight /\ [][NextHighlight]_vars

----------------------------------------------------------------------------
(* Claims on Find Next, checked under SpecFind *)

\* n successive Find Next clicks from a selection starting at start: the
\* selection starts they leave
RECURSIVE FindNextWalk(_, _, _, _, _, _)
FindNextWalk(value, start, searchTerm, cs, ww, n) ==
    IF n = 0 THEN <<>>
    ELSE LET nx == findNext(value, start, start, searchTerm, cs, ww).selectionStart
         IN  <<nx>> \o FindNextWalk(value, nx, searchTerm, cs, ww, n - 1)

\* n successive forward searches, each from the end of the previous match
\* and retried from offset 0 when nothing is found
RECURSIVE FromEndWalk(_, _, _, _, _, _)
FromEndWalk(value, start, searchTerm, cs, ww, n) ==
    IF n = 0 THEN <<>>
    ELSE LET i  == findInText(value, searchTerm, start + Len(searchTerm), cs, ww)
             nx == IF i # NOT_FOUND THEN i ELSE findInText(value, searchTerm, 0, cs, ww)
         IN  <<nx>> \o FromEndWalk(value, nx, searchTerm, cs, ww, n - 1)

Range(seq) == {seq[i] : i \in 1..Len(seq)}

Overlapping(Q, len) == \E i \in Q : \E j \in Q : i < j /\ j < i + len

\* C7 as claimed: searching forward from the end of each previous match,
\* wrapping to offset 0, visits every occurrence before the first repeats.
C7_Original ==
    (lastOp = "findNext" /\ ret.result # NOT_FOUND) =>
        LET Q == QualifyingSet(editorValue, findInput, caseSensitive, wholeWord)
        IN  Range(FromEndWalk(editorValue, selectionStart, findInput,
                              caseSensitive, wholeWord, Cardinality(Q))) = Q

\* C7 amended: repeated Find Next, which searches from one past the start of
\* the previous match and wraps to offset 0, visits every qualifying
\* occurrence exactly once before the first visited occurrence is selected
\* again.
C7_FindNextVisitsEveryOccurrence ==
    (lastOp = "findNext" /\ ret.result # NOT_FOUND) =>
        LET Q    == QualifyingSet(editorValue, findInput, caseSensitive, wholeWord)
            walk == FindNextWalk(editorValue, selectionStart, findInput,
                                 caseSensitive, wholeWord, Cardinality(Q))
        IN  /\ Range(walk) = Q
            /\ walk[Len(walk)] = selectionStart

\* Find Next wrapped onto a match in a text whose occurrences overlap
C7_Witness ==
    /\ lastOp = "findNext"
    /\ ret.result # NOT_FOUND
    /\ ret.status.kind = "Wrapped to line"
    /\ LET Q == QualifyingSet(editorValue, findInput, caseSensitive, wholeWord)
       IN  Cardinality(Q) >= 2 /\ Overlapping(Q, Len(findInput))

\* C14: findNext reports "No matches found" exactly when the buffer holds no
\* qualifying occurrence, and then leaves the selection alone; otherwise it
\* selects the first qualifying occurrence found from the cursor, or, when
\* there is none, the first one found by one more search from offset 0, and
\* it reports "Wrapped" exactly when the match came from that second search.
C14_FindNextWrapAround ==
    lastOp = "findNext" =>
        LET Q     == QualifyingSet(editorValue, findInput, caseSensitive, wholeWord)
            ahead == {i \in Q : i >= pre.selectionStart + 1}
        IN  /\ (ret.status.kind = "No matches found") <=> (Q = {})
            /\ Q = {} => /\ selectionStart = pre.selectionStart
                          /\ selectionEnd = pre.selectionEnd
            /\ Q # {} => /\ selectionStart = Least(IF ahead # {} THEN ahead ELSE Q)
                          /\ selectionEnd = selectionStart + Len(findInput)
            /\ (ret.status.kind = "Wrapped to line") <=> (Q # {} /\ ahead = {})
            /\ (ret.status.kind = "Found at line") <=> (ahead # {})

\* a whole-word Find Next from a cursor with only rejected candidates ahead
\* that wrapped onto a qualifying occurrence at or before the cursor
C14_Witness ==
    /\ lastOp = "findNext" /\ wholeWord
    /\ ret.status.kind = "Wrapped to line"
    /\ selectionStart <= pre.selectionStart
    /\ \E i \in (pre.selectionStart + 1)..Len(editorValue) :
           Occurs(editorValue, findInput, i, caseSensitive)

\* C15: findPrevious reports "No matches found" only when the buffer holds
\* no qualifying occurrence at all; when nothing qualifies before the cursor
\* its one retry from the end of the buffer selects a qualifying occurrence
\* of the whole content.
C15_FindPreviousWrapAround ==
    lastOp = "findPrevious" =>
        LET Q == QualifyingSet(editorValue, findInput, caseSensitive, wholeWord)
        IN  /\ (ret.status.kind = "No matches found") <=> (Q = {})
            /\ Q # {} => /\ selectionStart \in Q
                          /\ selectionEnd = selectionStart + Len(findInput)

----------------------------------------------------------------------------
(* Claims on replace, checked under Spec *)

PreSelected == Substring(pre.value, pre.selectionStart, pre.selectionEnd)

\* equality of selection and pattern under the case rule
EqualUnderCaseRule(a, b, cs) ==
    IF cs THEN a = b ELSE ToLowerCase(a) = ToLowerCase(b)

\* text with every exact occurrence of pattern that has non-word neighbours
\* replaced, left to right without overlap
RECURSIVE ReplaceWholeWords(_, _, _, _)
ReplaceWholeWords(text, pattern, replacement, from) ==
    IF from >= Len(text) THEN <<>>
    ELSE IF MatchesAt(text, pattern, from) /\ WordBounded(text, pattern, from)
         THEN replacement \o ReplaceWholeWords(text, pattern, replacement,
                                               from + Len(pattern))
         ELSE <<CharAt(text, from)>> \o ReplaceWholeWords(text, pattern, replacement,
                                                          from + 1)

\* C1: the count replaceAll reports equals countInText on the content and
\* options it started from.
C1_ReplaceAllCountAgreesWithCount ==
    (lastOp = "replaceAll" /\ findInput # <<>>) =>
        ret.result = countInText(pre.value, findInput, caseSensitive, wholeWord)

\* C2: with whole-word set, replaceAll replaces only the occurrences whose
\* neighbours are non-word; an occurrence inside a longer word stays.
C2_ReplaceAllWholeWordOnly ==
    (lastOp = "replaceAll" /\ findInput # <<>> /\ wholeWord) =>
        editorValue = ReplaceWholeWords(pre.value, findInput, replaceInput, 0)

\* C3: replaceOne replaces the selection if and only if it equals the
\* pattern under the current case rule.
C3_ReplaceOneIffSelectionEqualsUnderCaseRule ==
    (lastOp = "replaceOne" /\ findInput # <<>>) =>
        (ret.result = 1 <=> EqualUnderCaseRule(PreSelected, findInput, caseSensitive))

\* C8: after a successful replaceOne the next selected match is the first
\* qualifying occurrence starting at or after the end of the inserted
\* replacement.
C8_ChainedSearchStartsAtReplacementEnd ==
    (lastOp = "replaceOne" /\ ret.result = 1) =>
        LET replacementEnd == pre.selectionStart + Len(replaceInput)
            Q == {i \in QualifyingSet(editorValue, findInput,
                                      caseSensitive, wholeWord) :
                      i >= replacementEnd}
        IN  Q # {} => /\ selectionStart = Least(Q)
                      /\ selectionEnd = selectionStart + Len(findInput)

\* C9: when the selected text is not the search pattern, replaceOne leaves
\* the content and the tabs (modified flag included) as they were, replaces
\* nothing, and goes on to find-next: the next qualifying occurrence after
\* the selection start is selected, the first one on wrap, none if there is
\* no occurrence.
C9_SelectionMismatchSkipsReplacement ==
    (lastOp = "replaceOne" /\ PreSelected # findInput) =>
        /\ editorValue = pre.value
        /\ tabs = pre.tabs
        /\ ret.result = 0
        /\ LET Q     == QualifyingSet(pre.value, findInput, caseSensitive, wholeWord)
               after == {i \in Q : i > pre.selectionStart}
           IN  IF findInput = <<>> \/ Q = {}
               THEN /\ selectionStart = pre.selectionStart
                    /\ selectionEnd = pre.selectionEnd
                    /\ ret.status.kind = IF findInput = <<>> THEN ""
                                         ELSE "No matches found"
               ELSE /\ selectionStart = Least(IF after # {} THEN after ELSE Q)
                    /\ selectionEnd = selectionStart + Len(findInput)
                    /\ ret.status.kind = IF after # {} THEN "Found at line"
                                         ELSE "Wrapped to line"

\* a non-empty selection that differs from the pattern only in case, in an
\* unmodified tab; replaceOne moved on to the next match
C9_Witness ==
    /\ lastOp = "replaceOne"
    /\ PreSelected # findInput
    /\ PreSelected # <<>>
    /\ ToLowerCase(PreSelected) = ToLowerCase(findInput)
    /\ ~caseSensitive
    /\ tabs[1].modified = FALSE
    /\ selectionStart # pre.selectionStart
    /\ ret.status.kind = "Found at line"

----------------------------------------------------------------------------
(* Claims on Replace All, checked under SpecReplace and SpecScript *)

\* every exact-case occurrence taken greedily from the left replaced, every
\* other character kept
RECURSIVE ReplaceExact(_, _, _, _)
ReplaceExact(text, pattern, replacement, i) ==
    IF i >= Len(text) THEN <<>>
    ELSE IF MatchesAt(text, pattern, i)
         THEN replacement \o ReplaceExact(text, pattern, replacement, i + Len(pattern))
         ELSE <<text[i + 1]>> \o ReplaceExact(text, pattern, replacement, i + 1)

\* C12: replaceAll leaves exactly the content in which every exact-case
\* literal occurrence of the pattern, taken left to right without overlap,
\* is replaced and nothing else is changed, whatever caseSensitive is.
C12_ReplaceAllExactCaseLeftToRight ==
    lastOp = "replaceAll" =>
        /\ editorValue = ReplaceExact(pre.value, findInput, replaceInput, 0)
        /\ tabs[TabIndex(tabs, activeTabId)].content = editorValue

\* a case-insensitive Replace All that replaced an exact-case occurrence and
\* left an occurrence of another case, or one overlapping a replaced one, alone
C12_Witness ==
    /\ lastOp = "replaceAll" /\ ~caseSensitive
    /\ ret.result >= 1
    /\ editorValue # pre.value
    /\ \E i \in QualifyingSet(pre.value, findInput, FALSE, FALSE) :
           ~MatchesAt(pre.value, findInput, i)
    /\ Overlapping(QualifyingSet(pre.value, findInput, FALSE, FALSE), Len(findInput))

\* C13: a Replace All that finds no occurrence leaves the editor text, the
\* active tab's content and its modified flag as they were and reports that
\* nothing matched.
C13_ZeroOccurrencesNoMutation ==
    (/\ lastOp \in {"replaceAll", "script.replaceAll"}
     /\ findInput # <<>>
     /\ \A i \in 0..Len(pre.value) : ~MatchesAt(pre.value, findInput, i)) =>
        /\ editorValue = pre.value
        /\ tabs = pre.tabs
        /\ ret.result = 0
        /\ ret.status.kind # ""

----------------------------------------------------------------------------
(* Claims on Search All Files, checked under SpecSearchAll *)

\* the handler last run listed the lines of every tab
SearchedAll ==
    \/ lastOp = "searchAllFilesNow"
    \/ lastOp = "countOccurrences" /\ ret.scope = "all"

\* the line numbers listed for the tab with this id
ListedLines(fileResults, id) ==
    {fileResults[k].matches[m].lineNum :
        <<k, m>> \in {km \in (1..Len(fileResults)) \X (1..MaxDoc + 1) :
                         /\ fileResults[km[1]].tab.id = id
                         /\ km[2] <= Len(fileResults[km[1]].matches)}}

\* how many entries of the result list line n of the tab with this id
TimesListed(fileResults, id, n) ==
    Cardinality({km \in (1..Len(fileResults)) \X (1..MaxDoc + 1) :
                    /\ fileResults[km[1]].tab.id = id
                    /\ km[2] <= Len(fileResults[km[1]].matches)
                    /\ fileResults[km[1]].matches[km[2]].lineNum = n})

\* C16: a line of a tab is listed exactly when it holds an occurrence that
\* qualifies by the rule of the single-buffer search (case rule, and with
\* wholeWord non-word neighbours), and it is listed at most once.
C16_LineListedIffQualifyingOccurrence ==
    SearchedAll =>
        \A t \in 1..Len(tabs) :
            LET lines == SplitLines(tabs[t].content, 0)
            IN  \A n \in 1..Len(lines) :
                    /\ (n \in ListedLines(ret.fileResults, tabs[t].id)) <=>
                           (QualifyingSet(lines[n], findInput,
                                          caseSensitive, wholeWord) # {})
                    /\ TimesListed(ret.fileResults, tabs[t].id, n) <= 1

\* C17: only tabs with at least one matching line are listed, in the order
\* of the tab list, each with its matching lines in strictly ascending
\* 1-based line number.
C17_ResultsGroupedAndOrdered ==
    SearchedAll =>
        LET fr == ret.fileResults
        IN  /\ \A k \in 1..Len(fr) :
                   /\ Len(fr[k].matches) >= 1
                   /\ TabIndex(tabs, fr[k].tab.id) # 0
                   /\ fr[k].tab = tabs[TabIndex(tabs, fr[k].tab.id)]
                   /\ \A m \in 1..Len(fr[k].matches) :
                          LET lines == SplitLines(fr[k].tab.content, 0)
                              e     == fr[k].matches[m]
                          IN  /\ e.lineNum \in 1..Len(lines)
                              /\ e.line = lines[e.lineNum]
                              /\ m > 1 => fr[k].matches[m - 1].lineNum < e.lineNum
            /\ \A k \in 2..Len(fr) :
                   TabIndex(tabs, fr[k - 1].tab.id) < TabIndex(tabs, fr[k].tab.id)

\* the first of two tabs holds no matching line and is left out, the second
\* is listed with two lines
C17_Witness ==
    /\ SearchedAll
    /\ Len(tabs) = 2
    /\ Len(ret.fileResults) = 1
    /\ ret.fileResults[1].tab = tabs[2]
    /\ Len(ret.fileResults[1].matches) = 2
    /\ tabs[1].content # <<>>

RECURSIVE SumMatches(_, _)
SumMatches(fileResults, k) ==
    IF k > Len(fileResults) THEN 0
    ELSE Len(fileResults[k].matches) + SumMatches(fileResults, k + 1)

\* C18: the total reported equals the number of listed lines summed over the
\* listed tabs, a line counting once however many occurrences it holds.
C18_TotalIsSumOfListedLines ==
    SearchedAll =>
        /\ ret.result = SumMatches(ret.fileResults, 1)
        /\ ret.status.n = ret.result
        /\ (ret.status.kind = "No matches found in any file") <=> (ret.result = 0)

\* two tabs listed, three lines in all, one of them holding two occurrences
C18_Witness ==
    /\ SearchedAll /\ ~wholeWord
    /\ Len(ret.fileResults) = 2
    /\ ret.result = 3
    /\ \E k \in 1..2 : \E m \in 1..Len(ret.fileResults[k].matches) :
           Cardinality(QualifyingSet(ret.fileResults[k].matches[m].line,
                                     findInput, caseSensitive, FALSE)) >= 2

----------------------------------------------------------------------------
(* Claims on the dialog buttons, checked under SpecDialog *)

DialogHandlers ==
    {"findNext", "findPrevious", "countOccurrences", "searchAllFilesNow",
     "replaceOne", "replaceAll"}

\* C19: with an empty find field every dialog handler returns at once: the
\* editor text, the tabs with their modified flags and the selection are as
\* before, no status is written and no count other than zero is reported.
C19_EmptyPatternRejected ==
    (lastOp \in DialogHandlers /\ findInput = <<>>) =>
        /\ editorValue = pre.value
        /\ tabs = pre.tabs
        /\ selectionStart = pre.selectionStart
        /\ selectionEnd = pre.selectionEnd
        /\ ret.result \in {0, NOT_FOUND}
        /\ ret.status = NoStatus
        /\ lastOp \in {"countOccurrences", "searchAllFilesNow"} =>
               ret.fileResults = <<>>

\* Search All Files pressed with an empty find field over a tab that is
\* unmodified and holds text
C19_Witness ==
    /\ lastOp = "searchAllFilesNow"
    /\ findInput = <<>>
    /\ editorValue # <<>>
    /\ ~tabs[1].modified
    /\ ret.toast = "Please enter search text"

----------------------------------------------------------------------------
(* Claims on the open buffers, checked under SpecBuffers *)

\* the position in the tab list handleInput writes to: the first tab with
\* the active id
ActiveIndex(ts, active) == TabIndex(ts, active)

\* C21: replaceOne and replaceAll change the content of at most the active
\* buffer: every other tab has the id, name, content and modified flag it had
\* before the operation, and no tab is added or removed.
C21_ReplaceTouchesOnlyActiveBuffer ==
    lastOp \in {"replaceOne", "replaceAll"} =>
        /\ Len(tabs) = Len(pre.tabs)
        /\ \A i \in 1..Len(tabs) :
               i # ActiveIndex(pre.tabs, pre.activeTabId) => tabs[i] = pre.tabs[i]

\* Replace All rewrote the active tab while the other tab held an occurrence
\* of the term too
C21_Witness ==
    /\ lastOp = "replaceAll"
    /\ Len(tabs) = 2
    /\ LET k == ActiveIndex(pre.tabs, pre.activeTabId)
       IN  /\ k # 0
           /\ tabs[k].content # pre.tabs[k].content
           /\ \E i \in 1..Len(tabs) :
                  /\ i # k
                  /\ IndexOf(ToLowerCase(tabs[i].content),
                             ToLowerCase(findInput), 0) # NOT_FOUND

\* the handlers of the dialog that only search
ReadOnlyHandlers ==
    {"findNext", "findPrevious", "countOccurrences", "searchAllFilesNow"}

\* C23: Search All Files, Count, Find Next and Find Previous are read-only
\* over the buffers: after any of them the list of open tabs, and the id,
\* name, content and modified flag of every tab, are what they were before.
C23_SearchHandlersReadOnly ==
    lastOp \in ReadOnlyHandlers => tabs = pre.tabs

\* Search All Files listed lines of both tabs
C23_Witness ==
    /\ lastOp = "searchAllFilesNow"
    /\ Len(tabs) = 2
    /\ Len(ret.fileResults) = 2
    /\ tabs = pre.tabs

----------------------------------------------------------------------------
(* Claims on the tab list, checked under SpecTabs *)

\* C22: after any sequence of newFile, openFile, closeTab and switchTab the
\* ids of the open tabs are pairwise distinct.
C22_TabIdsDistinct ==
    \A i, j \in 1..Len(tabs) : i # j => tabs[i].id # tabs[j].id

\* C30: whenever a tab is open, activeTabId is the id of an open tab and the
\* editor shows the content of every tab that carries that id; and closeTab
\* never leaves the tab list empty: when it removes the last tab, exactly one
\* empty, unmodified tab named Untitled is open and active.
C30_ActiveTabOpenAndShown ==
    /\ Len(tabs) >= 1 =>
           /\ activeTabId \in TabIds(tabs)
           /\ \A i \in 1..Len(tabs) :
                  tabs[i].id = activeTabId => editorValue = tabs[i].content
    /\ lastOp = "closeTab" /\ Len(pre.tabs) >= 1 =>
           /\ Len(tabs) >= 1
           /\ (\A i \in 1..Len(pre.tabs) : pre.tabs[i].id = ret.result)
               /\ tabs # pre.tabs
                  => /\ tabs = <<Untitled(0)>>
                     /\ activeTabId = 0
                     /\ editorValue = <<>>

\* an openFile call has been made and none of its readers is still due:
\* every file was loaded, found open, skipped as too large or failed to read
BatchFinished == batch.files # <<>> /\ batch.due = {}

\* C26: once an openFile batch has finished, isLoadingFiles is false again,
\* whatever the order of the reader callbacks.
C26_FinishedBatchClearsLoadingFlag ==
    BatchFinished => isLoadingFiles = FALSE

----------------------------------------------------------------------------
(* Claims on the editing handlers, checked under SpecEditing *)

\* C25: after every editor event handler (typing, Tab key, paste, replaceOne,
\* replaceAll, switchTab) the content stored in the active tab equals the
\* editor text.
C25_ActiveTabHoldsEditorText ==
    LET k == TabIndex(tabs, activeTabId)
    IN  k # 0 => tabs[k].content = editorValue

----------------------------------------------------------------------------
(* Claims on the result lines, checked under SpecResults *)

\* C27: the delayed goToLine of a clicked result line runs on the buffer
\* whose id was clicked, whatever was handled between the click and the
\* timer: when it runs, that buffer is the active one and the editor holds
\* its content.
C27_GoToLineRunsInClickedBuffer ==
    lastOp = "goToLine" =>
        LET k == TabIndex(tabs, ret.timer.tabId)
        IN  /\ k # 0
            /\ activeTabId = ret.timer.tabId
            /\ editorValue = tabs[k].content

\* C29: when a result line of a whole-word search is clicked and goToLine
\* runs on the clicked, unchanged buffer, the selection is an occurrence of
\* the term in that line that qualifies under the options of the search (its
\* neighbours are non-word characters or the ends of the text, or it is a
\* match of the whole-word expression the search tested the line with), as
\* long as the term.
C29_GoToLineSelectsQualifyingOccurrence ==
    (/\ lastOp = "goToLine"
     /\ ret.timer.wholeWord
     /\ activeTabId = ret.timer.tabId
     /\ TabIndex(tabs, activeTabId) # 0)
    => LET t == ret.timer
           lines == SplitLines(editorValue, 0)
           offset == charCountOf(lines, t.lineNum - 1)
       IN  /\ selectionEnd - selectionStart = Len(t.searchTerm)
           /\ selectionStart >= offset
           /\ selectionEnd <= offset + Len(lines[t.lineNum])
           /\ \/ Qualifies(editorValue, t.searchTerm, selectionStart,
                           t.caseSensitive, TRUE)
              \/ RegExpWordMatchAt(lines[t.lineNum],
                                   IF t.caseSensitive THEN t.searchTerm
                                   ELSE ToLowerCase(t.searchTerm),
                                   ~t.caseSensitive, selectionStart - offset)

----------------------------------------------------------------------------
(* Claims on Find Previous, checked under SpecFindPrevious *)

\* the matches n further presses of Find Previous select, from the match
\* selected at start
RECURSIVE FindPreviousWalk(_, _, _, _, _, _)
FindPreviousWalk(value, start, searchTerm, cs, ww, n) ==
    IF n = 0 THEN <<>>
    ELSE LET pv == findPrevious(value, start, start + Len(searchTerm),
                                searchTerm, cs, ww).selectionStart
         IN  <<pv>> \o FindPreviousWalk(value, pv, searchTerm, cs, ww, n - 1)

\* the occurrence of Q that precedes the one at s: the nearest one starting
\* before s, or the last of all when none does
Preceding(Q, s) ==
    LET before == {q \in Q : q < s}
    IN  IF before # {} THEN Greatest(before) ELSE Greatest(Q)

\* C28: from a match selected by Find Previous, pressing Find Previous again
\* and again with no edit in between selects the nearest preceding
\* qualifying occurrence each time (also one that ends exactly where the
\* current match starts), wraps to the last occurrence after the first, and
\* so visits every qualifying occurrence before it is back at the match it
\* started from.
C28_FindPreviousVisitsEveryOccurrence ==
    (lastOp = "findPrevious" /\ ret.result # NOT_FOUND) =>
        LET Q    == QualifyingSet(editorValue, findInput, caseSensitive, wholeWord)
            walk == FindPreviousWalk(editorValue, selectionStart, findInput,
                                     caseSensitive, wholeWord, Cardinality(Q))
        IN  /\ walk[1] = Preceding(Q, selectionStart)
            /\ \A i \in 2..Len(walk) : walk[i] = Preceding(Q, walk[i - 1])
            /\ Range(walk) = Q
            /\ walk[Len(walk)] = selectionStart

----------------------------------------------------------------------------
(* Claims on the highlighted rendering, checked under SpecHighlight *)

\* the line rendered with the occurrences starting at the offsets of S
\* highlighted: every character escaped, the tags around the escaped
\* characters of each occurrence
RECURSIVE Render(_, _, _, _)
Render(text, S, len, i) ==
    IF i >= Len(text) THEN <<>>
    ELSE IF i \in S
    THEN <<SpanOpen>> \o escapeHtml(Substring(text, i, i + len)) \o <<SpanClose>>
         \o Render(text, S, len, i + len)
    ELSE escapeChar(text[i + 1]) \o Render(text, S, len, i + 1)

\* the sets of occurrences of the term in the line that do not overlap
Highlightable(text, searchTerm, cs) ==
    {S \in SUBSET QualifyingSet(text, searchTerm, cs, FALSE) :
        \A i, j \in S : i < j => i + Len(searchTerm) <= j}

\* C24: in the highlighted rendering of a line every markup-significant
\* character is escaped and every highlighted span covers an occurrence of
\* the term in the original line, never characters the escaping brought in;
\* and a term that occurs in the line is highlighted, also when it holds
\* markup-significant characters.
C24_HighlightEscapesAndCoversOccurrences ==
    lastOp = "highlightMatch" =>
        \E S \in Highlightable(editorValue, findInput, caseSensitive) :
            /\ ret.html = Render(editorValue, S, Len(findInput), 0)
            /\ QualifyingSet(editorValue, findInput, caseSensitive, FALSE) # {}
                   => S # {}

====
